---------------------------- MODULE Spec2Model ----------------------------
(***************************************************************************)
(* Model of sapo: the Lexer (src/parsing/lexer.rs), the recursive-descent  *)
(* parser (src/parsing/parser.rs) and the rendering of its errors, the     *)
(* evaluator (src/evaluation/evaluation.rs) and the printer of trees       *)
(* (src/ast_printer.rs).  A source text is a sequence of characters, a     *)
(* character is a one-character string, a lexeme is a sequence of          *)
(* characters.  Option<T> is a sequence of length 0 (None) or 1 (Some).    *)
(* An i32 is an integer of -2^31 .. 2^31 - 1; its arithmetic either traps  *)
(* or wraps on overflow, as the build has it.                              *)
(***************************************************************************)
EXTENDS Integers, Sequences, FiniteSets, TLC

\* ------------------------------------------------------------------ bounds

\* longest source text drawn character by character
MaxLen == 4
\* longest digit run of the integer-literal inputs
MaxDigits == 10
\* largest number of operands of a chain of operators of one level
MaxChain == 4
\* next_token calls made on one Lexer
MaxCalls == 6

\* ------------------------------------------------------- characters, tokens

\* the sentinel character of the Lexer, '\u{0}'
EOF == "\\0"

QUOTE == "\""

Digits == {"0", "1", "2", "3", "4", "5", "6", "7", "8", "9"}

Letters ==
    {"a", "b", "c", "d", "e", "f", "g", "h", "i", "j", "k", "l", "m",
     "n", "o", "p", "q", "r", "s", "t", "u", "v", "w", "x", "y", "z",
     "A", "B", "C", "D", "E", "F", "G", "H", "I", "J", "K", "L", "M",
     "N", "O", "P", "Q", "R", "S", "T", "U", "V", "W", "X", "Y", "Z"}

is_whitespace(c) == c \in {" ", "\t", "\n", "\r"}

is_alpha(c) == c \in Letters \cup Digits \cup {"_"}

is_digit(c) == c \in Digits

not_whitespace(c) == ~is_whitespace(c)

not_quote(c) == c # QUOTE

Token_new(token_type, lexeme, line) ==
    [token_type |-> token_type, lexeme |-> lexeme, line |-> line]

\* ------------------------------------------------------------------- Lexer

Lexer_new(inp) ==
    [input |-> inp, position |-> 0, next_position |-> 0,
     current_char |-> EOF, current_line |-> 1]

\* input.get(next_position), None read as EOF
peek(l) ==
    IF l.next_position < Len(l.input) THEN l.input[l.next_position + 1] ELSE EOF

\* the Lexer moved onto the character c
moved(l, c) ==
    [l EXCEPT !.current_char = c,
              !.position = l.next_position,
              !.next_position = l.next_position + 1,
              !.current_line = IF c = "\n" THEN @ + 1 ELSE @]

\* advance with the line counter forgotten
advance_without_line(l) ==
    [l EXCEPT !.current_char = peek(l),
              !.position = l.next_position,
              !.next_position = l.next_position + 1]

advance(l) == moved(l, peek(l))

\* a predicate P: Fn(char) -> bool handed to advance_until or advance_while,
\* named by the function or closure that is passed
call(predicate, c) ==
    CASE predicate = "is_digit" -> is_digit(c)
      [] predicate = "is_alpha" -> is_alpha(c)
      [] predicate = "not_whitespace" -> not_whitespace(c)
      [] predicate = "not_quote" -> not_quote(c)

RECURSIVE advance_until(_, _)
advance_until(l, predicate) ==
    IF l.current_char # EOF /\ ~call(predicate, l.current_char)
    THEN advance_until(advance(l), predicate)
    ELSE l

RECURSIVE advance_while(_, _)
advance_while(l, predicate) ==
    IF l.current_char # EOF /\ call(predicate, l.current_char) /\ call(predicate, peek(l))
    THEN advance_while(advance(l), predicate)
    ELSE l

\* the test of the next character without the advance
matches_without_advance(l, expected) == [l |-> l, matched |-> peek(l) = expected]

\* conditional advance: [l, matched]
matches(l, expected) ==
    IF peek(l) = expected
    THEN [l |-> advance(l), matched |-> TRUE]
    ELSE [l |-> l, matched |-> FALSE]

\* &input[from..to]: the slice panics when the range leaves the input
extract_substring(l, from, to) ==
    IF from <= to /\ to <= Len(l.input)
    THEN [ok |-> TRUE, str |-> SubSeq(l.input, from + 1, to)]
    ELSE [ok |-> FALSE, str |-> <<>>]

\* The outcome of a Lexer method that returns a Token: the Lexer after it,
\* the token (none when the call panicked), and built_at, the number of
\* characters the Lexer had moved over when Token::new ran.
Emit(l, token_type, lexeme) ==
    [l |-> l, tok |-> <<Token_new(token_type, lexeme, l.current_line)>>,
     panic |-> FALSE, built_at |-> l.next_position]

Panicked(l) == [l |-> l, tok |-> <<>>, panic |-> TRUE, built_at |-> l.next_position]

\* read_string once the text is extracted: the token, then the advance over
\* the closing quote
string_token(l, sub) ==
    IF ~sub.ok THEN Panicked(l)
    ELSE [Emit(l, "StringLiteral", sub.str) EXCEPT !.l = advance(l)]

\* read_string from start, with the Lexer l at the end of the scan
string_from(start, l) == string_token(l, extract_substring(l, start, l.position + 1))

\* read_string after the advance over the opening quote
string_body(l) == string_from(l.position, advance_while(l, "not_quote"))

read_string(l) == string_body(advance(l))

number_token(l, sub) ==
    IF ~sub.ok THEN Panicked(l) ELSE Emit(l, "IntegerLiteral", sub.str)

number_from(start, l) == number_token(l, extract_substring(l, start, l.position + 1))

read_number(l) == number_from(l.position, advance_while(l, "is_digit"))

\* the keyword table: text -> token type
initialize_keywords ==
    [k \in {<<"i", "f">>, <<"t", "r", "u", "e">>, <<"f", "a", "l", "s", "e">>} |->
        IF k = <<"i", "f">> THEN "If" ELSE "BooleanLiteral"]

identifier_token(l, sub) ==
    IF ~sub.ok THEN Panicked(l)
    ELSE IF sub.str \in DOMAIN initialize_keywords
         THEN Emit(l, initialize_keywords[sub.str], sub.str)
         ELSE Emit(l, "Identifier", sub.str)

identifier_from(start, l) ==
    identifier_token(l, extract_substring(l, start, l.position + 1))

read_identifier(l) == identifier_from(l.position, advance_while(l, "is_alpha"))

\* '=', '!', '<', '>' after self.matches('=') returned m
prefixed_token(c, m, single, double) ==
    IF m.matched
    THEN Emit(m.l, double, <<c, "=">>)
    ELSE Emit(m.l, single, <<c>>)

\* '=', '!', '<', '>': one character of lookahead picks the double form
read_prefixed(l, single, double) ==
    prefixed_token(l.current_char, matches(l, "="), single, double)

SingleCharTokens ==
    [c \in {"-", "+", "*", "/", "(", ")", "{", "}", ";"} |->
        CASE c = "-" -> "Minus"
          [] c = "+" -> "Plus"
          [] c = "*" -> "Star"
          [] c = "/" -> "Slash"
          [] c = "(" -> "LeftParen"
          [] c = ")" -> "RightParen"
          [] c = "{" -> "LeftBrace"
          [] c = "}" -> "RightBrace"
          [] c = ";" -> "Semicolon"]

\* match self.current_char { .. }
dispatch(l, c) ==
    CASE c = EOF -> Emit(l, "EOF", <<"E", "O", "F">>)
      [] c # EOF /\ is_digit(c) -> read_number(l)
      [] c # EOF /\ ~is_digit(c) /\ is_alpha(c) -> read_identifier(l)
      [] c = QUOTE -> read_string(l)
      [] c \in DOMAIN SingleCharTokens -> Emit(l, SingleCharTokens[c], <<c>>)
      [] c = "=" -> read_prefixed(l, "Assignment", "Equals")
      [] c = "!" -> read_prefixed(l, "Bang", "BangEquals")
      [] c = "<" -> read_prefixed(l, "Smaller", "SmallerEquals")
      [] c = ">" -> read_prefixed(l, "Greater", "GreaterEquals")
      [] OTHER -> Emit(l, "InvalidToken", <<c>>)

\* next_token once the Lexer is on the first character that is not whitespace
token_at(l) == dispatch(l, l.current_char)

\* next_token without the advance it begins with
next_token_without_advance(l) == token_at(advance_until(l, "not_whitespace"))

next_token(l) == token_at(advance_until(advance(l), "not_whitespace"))

\* Iterator::next for Lexer, given what next_token returned: None for EOF
item_of(r) ==
    IF r.panic THEN [l |-> r.l, item |-> <<>>, panic |-> TRUE]
    ELSE IF r.tok[1].token_type = "EOF"
         THEN [l |-> r.l, item |-> <<>>, panic |-> FALSE]
         ELSE [l |-> r.l, item |-> r.tok, panic |-> FALSE]

Lexer_next(l) == item_of(next_token(l))

\* ------------------------------------------------------------------ parser

\* 2^31 - 1, the largest value str::parse::<i32> accepts
I32_MAX == 2147483647

DigitValue ==
    [c \in Digits |->
        CASE c = "0" -> 0 [] c = "1" -> 1 [] c = "2" -> 2 [] c = "3" -> 3
          [] c = "4" -> 4 [] c = "5" -> 5 [] c = "6" -> 6 [] c = "7" -> 7
          [] c = "8" -> 8 [] c = "9" -> 9]

\* the digits of lexeme.parse::<i32>(), from the left with checked
\* arithmetic: Err on a character that is no digit and on a value beyond the
\* 32-bit range
RECURSIVE parse_digits(_, _)
parse_digits(acc, digits) ==
    IF digits = <<>> THEN [ok |-> TRUE, value |-> acc]
    ELSE IF Head(digits) \notin Digits THEN [ok |-> FALSE, value |-> 0]
    ELSE IF acc > I32_MAX \div 10 \/ acc * 10 > I32_MAX - DigitValue[Head(digits)]
    THEN [ok |-> FALSE, value |-> 0]
    ELSE parse_digits(acc * 10 + DigitValue[Head(digits)], Tail(digits))

\* lexeme.parse::<i32>() on a text without a sign (the Lexer puts none in an
\* IntegerLiteral): Err on the empty text
parse_i32(lexeme) ==
    IF lexeme = <<>> THEN [ok |-> FALSE, value |-> 0]
    ELSE parse_digits(0, lexeme)

\* lexeme.parse::<bool>()
parse_bool(lexeme) ==
    IF lexeme = <<"t", "r", "u", "e">> THEN [ok |-> TRUE, value |-> TRUE]
    ELSE IF lexeme = <<"f", "a", "l", "s", "e">> THEN [ok |-> TRUE, value |-> FALSE]
    ELSE [ok |-> FALSE, value |-> FALSE]

\* Lexer::new(input).peekable().  l is the Lexer, peeked the cached lookahead
\* (Option<Option<Token>>), panic is set when a call on the Lexer panicked.
\* History kept for the claims: at_primary, the lookahead at every entry of
\* parse_primary_expr; at_closing, for every grouping whose inner expression
\* has been parsed, the inner result and the lookahead where ')' is due.
Peekable_new(l) ==
    [l |-> l, peeked |-> <<>>, panic |-> FALSE, at_primary |-> <<>>, at_closing |-> <<>>]

\* the lookahead is filled with what the Lexer returned
filled(s, r) ==
    IF r.panic THEN [s EXCEPT !.l = r.l, !.panic = TRUE]
    ELSE [s EXCEPT !.l = r.l, !.peeked = <<r.item>>]

Peekable_peek(s) ==
    IF s.peeked # <<>> THEN s ELSE filled(s, Lexer_next(s.l))

\* [s, item], when the lookahead is filled (match_token calls it then only)
Peekable_next(s) ==
    [s |-> [s EXCEPT !.peeked = <<>>], item |-> s.peeked[1]]

\* match_token after tokens.peek(): the stream is p
matched(p, types_to_match) ==
    IF p.panic THEN [s |-> p, token |-> <<>>]
    ELSE IF p.peeked[1] # <<>> /\ p.peeked[1][1].token_type \in types_to_match
         THEN [s |-> Peekable_next(p).s, token |-> Peekable_next(p).item]
         ELSE [s |-> p, token |-> <<>>]

\* [s, token]: consumes the lookahead when its type is one of types_to_match
match_token(s, types_to_match) == matched(Peekable_peek(s), types_to_match)

\* tokens.peek().unwrap_or(EOF of line -1).clone(), the stream being p
peeked_or_eof(p) ==
    IF p.panic \/ p.peeked[1] = <<>>
    THEN Token_new("EOF", <<"E", "O", "F">>, -1)
    ELSE p.peeked[1][1]

\* next_token without the peek: the synthetic EOF token whatever was found
parser_next_token_synthetic(s) == Token_new("EOF", <<"E", "O", "F">>, -1)

\* the parser's next_token: the lookahead, or a synthetic EOF token of line -1
parser_next_token(s) == peeked_or_eof(Peekable_peek(s))

Ok(tree, s) == [res |-> [kind |-> "Ok", tree |-> tree], s |-> s]

Err(kind, token, s) == [res |-> [kind |-> kind, token |-> token], s |-> s]

\* the call panicked: nothing is returned
Abort(s) == [res |-> [kind |-> "Abort"], s |-> s]

IntegerLiteral(token, value) == [node |-> "IntegerLiteral", token |-> token, value |-> value]

BooleanLiteral(token, value) == [node |-> "BooleanLiteral", token |-> token, value |-> value]

StringLiteral(token, value) == [node |-> "StringLiteral", token |-> token, value |-> value]

Grouping(token, expr) == [node |-> "Grouping", token |-> token, expr |-> expr]

UnaryExpression(token, right) == [node |-> "UnaryExpression", token |-> token, right |-> right]

BinaryExpression(token, left, right) ==
    [node |-> "BinaryExpression", token |-> token, left |-> left, right |-> right]

EQUALITY_TOKENS == {"Equals", "BangEquals"}

\* the comparison table with '=' in it
COMPARISON_TOKENS_with_assignment ==
    {"Greater", "GreaterEquals", "Smaller", "SmallerEquals", "Assignment"}

COMPARISON_TOKENS == {"Greater", "GreaterEquals", "Smaller", "SmallerEquals"}

TERM_TOKENS == {"Minus", "Plus"}

\* the factor table with an operator of the term level in it
FACTOR_TOKENS_with_minus == {"Star", "Slash", "Minus"}

FACTOR_TOKENS == {"Star", "Slash"}

UNARY_OPERATORS == {"Bang", "Minus"}

\* The four binary levels are the same function but for the table of
\* operators and the function that parses an operand: level names the one.
operators_of(level) ==
    CASE level = "equality" -> EQUALITY_TOKENS
      [] level = "comparison" -> COMPARISON_TOKENS
      [] level = "term" -> TERM_TOKENS
      [] level = "factor" -> FACTOR_TOKENS

RECURSIVE parse_expression(_), parse_equality(_), parse_comparison(_)
RECURSIVE parse_term(_), parse_factor(_), parse_unary_operation(_)
RECURSIVE parse_primary_expr(_), binary_loop(_, _, _)

\* the function a level parses its operands with
operand_of(level, s) ==
    CASE level = "equality" -> parse_comparison(s)
      [] level = "comparison" -> parse_term(s)
      [] level = "term" -> parse_factor(s)
      [] level = "factor" -> parse_unary_operation(s)

\* let right = operand(tokens)?; left = BinaryExpression { token, left, right },
\* the right operand's result being r, then the loop again, as a recursion
\* on the right operand
binary_fold_right(level, left, token, r) ==
    IF r.res.kind # "Ok" THEN r
    ELSE LET rest == binary_loop(level, r.res.tree, r.s)
         IN  IF rest.res.kind # "Ok" THEN rest
             ELSE Ok(BinaryExpression(token, left, rest.res.tree), rest.s)

\* let right = operand(tokens)?; left = BinaryExpression { token, left, right },
\* the right operand's result being r, then the loop again
binary_fold(level, left, token, r) ==
    IF r.res.kind # "Ok" THEN r
    ELSE binary_loop(level, BinaryExpression(token, left, r.res.tree), r.s)

\* one test of the while let, match_token having returned m
binary_matched(level, left, m) ==
    IF m.s.panic THEN Abort(m.s)
    ELSE IF m.token = <<>> THEN Ok(left, m.s)
    ELSE binary_fold(level, left, m.token[1], operand_of(level, m.s))

\* while let Some(token) = match_token(tokens, &<level>_TOKENS) { .. } Ok(left)
binary_loop(level, left, s) ==
    binary_matched(level, left, match_token(s, operators_of(level)))

\* let mut left = operand(tokens)?, the operand's result being r, and the loop
binary_from(level, r) ==
    IF r.res.kind # "Ok" THEN r ELSE binary_loop(level, r.res.tree, r.s)

parse_equality(s) == binary_from("equality", parse_comparison(s))

parse_comparison(s) == binary_from("comparison", parse_term(s))

parse_term(s) == binary_from("term", parse_factor(s))

parse_factor(s) == binary_from("factor", parse_unary_operation(s))

\* let right = parse_unary_operation(tokens)?; Ok(UnaryExpression { token, right })
unary_of(token, r) ==
    IF r.res.kind # "Ok" THEN r
    ELSE Ok(UnaryExpression(token, r.res.tree), r.s)

unary_matched(m) ==
    IF m.s.panic THEN Abort(m.s)
    ELSE IF m.token # <<>> THEN unary_of(m.token[1], parse_unary_operation(m.s))
    ELSE parse_primary_expr(m.s)

parse_unary_operation(s) == unary_matched(match_token(s, UNARY_OPERATORS))

\* the history of the groupings, one entry more
closing_noted(s, inner, lookahead) ==
    [s EXCEPT !.at_closing = Append(@, [inner |-> inner, lookahead |-> lookahead])]

\* the grouping branch without the test for ')'
grouping_closing_unchecked(token, r, m) ==
    IF m.s.panic THEN Abort(m.s)
    ELSE Ok(Grouping(token, r.res.tree),
            closing_noted(m.s, r.res, IF m.token # <<>> THEN m.token ELSE m.s.peeked[1]))

\* if let None = match_token(tokens, &[RightParen]) { return Err(MissingBrace(
\* next_token(tokens))) }; Ok(Grouping { token, expr }): match_token returned m
grouping_closing(token, r, m) ==
    IF m.s.panic THEN Abort(m.s)
    ELSE IF m.token = <<>>
    THEN Err("MissingBrace", parser_next_token(m.s),
             closing_noted(m.s, r.res, m.s.peeked[1]))
    ELSE Ok(Grouping(token, r.res.tree), closing_noted(m.s, r.res, m.token))

\* let expr = parse_expression(tokens)?, its result being r, then the ')'
grouping_inner(token, r) ==
    IF r.res.kind = "Abort" THEN r
    ELSE IF r.res.kind # "Ok" THEN [r EXCEPT !.s = closing_noted(r.s, r.res, <<>>)]
    ELSE grouping_closing(token, r, match_token(r.s, {"RightParen"}))

\* the grouping branch, after '(' (token) has been consumed
parse_grouping(token, s) == grouping_inner(token, parse_expression(s))

primary_paren(m) ==
    IF m.s.panic THEN Abort(m.s)
    ELSE IF m.token # <<>> THEN parse_grouping(m.token[1], m.s)
    ELSE Err("MissingExpression", parser_next_token(m.s), m.s)

primary_string(m) ==
    IF m.s.panic THEN Abort(m.s)
    ELSE IF m.token # <<>> THEN Ok(StringLiteral(m.token[1], m.token[1].lexeme), m.s)
    ELSE primary_paren(match_token(m.s, {"LeftParen"}))

\* token.lexeme.parse::<bool>().unwrap()
boolean_of(token, value, s) ==
    IF value.ok THEN Ok(BooleanLiteral(token, value.value), s) ELSE Abort(s)

primary_boolean(m) ==
    IF m.s.panic THEN Abort(m.s)
    ELSE IF m.token # <<>> THEN boolean_of(m.token[1], parse_bool(m.token[1].lexeme), m.s)
    ELSE primary_string(match_token(m.s, {"StringLiteral"}))

\* token.lexeme.parse::<i32>().unwrap()
integer_of(token, value, s) ==
    IF value.ok THEN Ok(IntegerLiteral(token, value.value), s) ELSE Abort(s)

primary_integer(m) ==
    IF m.s.panic THEN Abort(m.s)
    ELSE IF m.token # <<>> THEN integer_of(m.token[1], parse_i32(m.token[1].lexeme), m.s)
    ELSE primary_boolean(match_token(m.s, {"BooleanLiteral"}))

\* the history of the entries of parse_primary_expr, one entry more
primary_noted(s) ==
    IF s.panic \/ s.peeked = <<>> THEN s
    ELSE [s EXCEPT !.at_primary = Append(@, s.peeked[1])]

parse_primary_expr(s) ==
    primary_integer(match_token(primary_noted(s), {"IntegerLiteral"}))

parse_expression(s) == parse_equality(s)

parse(inp) == parse_expression(Peekable_new(Lexer_new(inp)))

\* get_location_of_error
get_location_of_error(token) ==
    IF token.token_type = "EOF" THEN <<"end of file">>
    ELSE <<"line ", token.line>>

\* Display for ParseError: "ParseError at <location>: Expected <what>, but
\* '<lexeme>' was found."
ParseError_fmt(e) ==
    [location |-> get_location_of_error(e.token),
     expected |-> IF e.kind = "MissingBrace" THEN "')'" ELSE "expression",
     found |-> e.token.lexeme]

\* --------------------------------------------------------------- evaluator

\* -2^31, the smallest i32
I32_MIN == -I32_MAX - 1

\* l + r leaves the 32-bit range
add_overflows(l, r) ==
    \/ r > 0 /\ l > I32_MAX - r
    \/ r < 0 /\ l < I32_MIN - r

\* l + r modulo 2^32, as a 32-bit signed integer
wrapping_add(l, r) ==
    IF r > 0 /\ l > I32_MAX - r THEN (l - I32_MAX - 1) + (r - I32_MAX - 1)
    ELSE IF r < 0 /\ l < I32_MIN - r THEN (l + I32_MAX + 1) + (r + I32_MAX + 1)
    ELSE l + r

neg_overflows(v) == v = I32_MIN

wrapping_neg(v) == IF v = I32_MIN THEN I32_MIN ELSE -v

sub_overflows(l, r) ==
    \/ r < 0 /\ l > I32_MAX + r
    \/ r > 0 /\ l < I32_MIN + r

wrapping_sub(l, r) == wrapping_add(l, wrapping_neg(r))

\* |v| for v above I32_MIN
magnitude(v) == IF v < 0 THEN -v ELSE v

\* l * r leaves the 32-bit range
mul_overflows(l, r) ==
    IF l = 0 \/ r = 0 THEN FALSE
    ELSE IF l = I32_MIN THEN r # 1
    ELSE IF r = I32_MIN THEN l # 1
    ELSE IF (l < 0) = (r < 0) THEN magnitude(l) > I32_MAX \div magnitude(r)
    ELSE /\ magnitude(l) > I32_MAX \div magnitude(r)
         /\ ~(/\ I32_MAX % magnitude(r) = magnitude(r) - 1
              /\ magnitude(l) = (I32_MAX \div magnitude(r)) + 1)

\* t * 2^16 modulo 2^32 as a 32-bit signed integer, for t in 0..65535
high_half(t) == IF t >= 32768 THEN (t - 65536) * 65536 ELSE t * 65536

\* h * k modulo 2^32 for -256 <= k <= 256, by the two 16-bit halves of h
small_mul(h, k) ==
    wrapping_add(high_half(((h \div 65536) * k) % 65536), (h % 65536) * k)

\* acc * 256 + l * byte modulo 2^32
horner(acc, l, byte) == wrapping_add(small_mul(acc, 256), small_mul(l, byte))

\* l * r modulo 2^32, by the four bytes of r
wrapping_mul(l, r) ==
    horner(horner(horner(small_mul(l, r \div 16777216),
                         l, (r \div 65536) % 256),
                  l, (r \div 256) % 256),
           l, r % 256)

\* the quotient rounded down
div_by_positive_floor(l, p) == l \div p

\* l / p rounded toward zero, for a divisor p > 0
div_by_positive(l, p) ==
    IF l >= 0 THEN l \div p ELSE (l + (p - 1)) \div p

\* l / r of i32 for r # 0 and not (l = I32_MIN and r = -1): the quotient
\* rounded toward zero
truncating_div(l, r) ==
    IF r = I32_MIN THEN (IF l = I32_MIN THEN 1 ELSE 0)
    ELSE IF r > 0 THEN div_by_positive(l, r)
    ELSE -div_by_positive(l, -r)

Integer(value) == [kind |-> "Integer", value |-> value]

Boolean(value) == [kind |-> "Boolean", value |-> value]

String(value) == [kind |-> "String", value |-> value]

\* The evaluation as it goes: log, the nodes evaluate was called on, in the
\* order of the calls; overflow_checks, whether the build traps arithmetic
\* overflow (debug profile) or wraps (release profile).
Evaluation_new(overflow_checks) == [log |-> <<>>, overflow_checks |-> overflow_checks]

Value(object, e) == [res |-> [kind |-> "Ok", object |-> object], e |-> e]

Failure(msg, e) == [res |-> [kind |-> "Err", error |-> msg], e |-> e]

\* the call panicked: nothing is returned
Panic(e) == [res |-> [kind |-> "Panic"], e |-> e]

\* error(msg, token): "Error at <location>: <msg>"
error(msg, token) ==
    [location |-> IF token.token_type = "EOF" THEN <<"end of file">>
                  ELSE <<"line ", token.line>>,
     msg |-> msg]

\* Err("Unreachable".to_string())
Unreachable == [location |-> <<>>, msg |-> "Unreachable"]

\* an arithmetic result that overflows when overflows holds: the panic of the
\* overflow check, or the wrapped value
arithmetic(overflows, exact_or_wrapped, e) ==
    IF overflows /\ e.overflow_checks THEN Panic(e)
    ELSE Value(Integer(exact_or_wrapped), e)

\* l / r: panics on a zero divisor and on I32_MIN / -1 in every build
division(l, r, e) ==
    IF r = 0 \/ (l = I32_MIN /\ r = -1) THEN Panic(e)
    ELSE Value(Integer(truncating_div(l, r)), e)

RECURSIVE evaluate(_, _)

\* match token.token_type { Bang => .., Minus => .., _ => Unreachable }, the
\* operand's result being r
unary_apply(token, r) ==
    IF r.res.kind # "Ok" THEN r
    ELSE CASE token.token_type = "Bang" ->
                IF r.res.object.kind = "Boolean"
                THEN Value(Boolean(~r.res.object.value), r.e)
                ELSE Failure(error("Invalid operand for '!', expected boolean expression",
                                   token), r.e)
           [] token.token_type = "Minus" ->
                IF r.res.object.kind = "Integer"
                THEN arithmetic(neg_overflows(r.res.object.value),
                                wrapping_neg(r.res.object.value), r.e)
                ELSE Failure(error("Invalid operand for '-', expected integer expression",
                                   token), r.e)
           [] OTHER -> Failure(Unreachable, r.e)

evaluate_unary_expression(token, right, e) == unary_apply(token, evaluate(right, e))

\* the operators on integers only, l and r being Integer
integer_operation(token, l, r, e) ==
    CASE token.token_type = "Minus" -> arithmetic(sub_overflows(l, r), wrapping_sub(l, r), e)
      [] token.token_type = "Plus" -> arithmetic(add_overflows(l, r), wrapping_add(l, r), e)
      [] token.token_type = "Star" -> arithmetic(mul_overflows(l, r), wrapping_mul(l, r), e)
      [] token.token_type = "Slash" -> division(l, r, e)
      [] token.token_type = "Greater" -> Value(Boolean(l > r), e)
      [] token.token_type = "GreaterEquals" -> Value(Boolean(l >= r), e)
      [] token.token_type = "SmallerEquals" -> Value(Boolean(l <= r), e)
      [] token.token_type = "Smaller" -> Value(Boolean(l < r), e)
      [] token.token_type = "Equals" -> Value(Boolean(l = r), e)
      [] token.token_type = "BangEquals" -> Value(Boolean(l # r), e)

\* the messages with the one of '<' copied into the arm of '<='
invalid_operands_copied ==
    [t \in {"Minus", "Plus", "Star", "Slash", "Greater", "GreaterEquals",
            "SmallerEquals", "Smaller", "Equals", "BangEquals"} |->
        CASE t = "Minus" -> "Invalid operands for '-'"
          [] t = "Plus" -> "Invalid operands for '+'"
          [] t = "Star" -> "Invalid operands for '*'"
          [] t = "Slash" -> "Invalid operands for '/'"
          [] t = "Greater" -> "Invalid operands for '>'"
          [] t = "GreaterEquals" -> "Invalid operands for '>='"
          [] t = "SmallerEquals" -> "Invalid operands for '<'"
          [] t = "Smaller" -> "Invalid operands for '<'"
          [] t = "Equals" -> "Invalid operands for '=='"
          [] t = "BangEquals" -> "Invalid operands for '!='"]

\* the message of the arm of each operator
invalid_operands ==
    [t \in {"Minus", "Plus", "Star", "Slash", "Greater", "GreaterEquals",
            "SmallerEquals", "Smaller", "Equals", "BangEquals"} |->
        CASE t = "Minus" -> "Invalid operands for '-'"
          [] t = "Plus" -> "Invalid operands for '+'"
          [] t = "Star" -> "Invalid operands for '*'"
          [] t = "Slash" -> "Invalid operands for '/'"
          [] t = "Greater" -> "Invalid operands for '>'"
          [] t = "GreaterEquals" -> "Invalid operands for '>='"
          [] t = "SmallerEquals" -> "Invalid operands for '<='"
          [] t = "Smaller" -> "Invalid operands for '<'"
          [] t = "Equals" -> "Invalid operands for '=='"
          [] t = "BangEquals" -> "Invalid operands for '!='"]

\* the arms of '==' and '!=' taking any two operands of one kind
equality_of_any_kind(token, l, r, e) ==
    IF token.token_type \in {"Equals", "BangEquals"} /\ l.kind = r.kind
    THEN Value(Boolean((l.value = r.value) = (token.token_type = "Equals")), e)
    ELSE Failure(error(invalid_operands[token.token_type], token), e)

\* the arms of '==' and '!=' for operands that are not both Integer, and the
\* arm '_' of every operator
boolean_equality(token, l, r, e) ==
    IF token.token_type \in {"Equals", "BangEquals"}
       /\ l.kind = "Boolean" /\ r.kind = "Boolean"
    THEN Value(Boolean((l.value = r.value) = (token.token_type = "Equals")), e)
    ELSE Failure(error(invalid_operands[token.token_type], token), e)

\* match token.token_type { .. => match (left, right) { .. } }
operate(token, l, r, e) ==
    IF token.token_type \notin DOMAIN invalid_operands THEN Failure(Unreachable, e)
    ELSE IF l.kind = "Integer" /\ r.kind = "Integer"
    THEN integer_operation(token, l.value, r.value, e)
    ELSE boolean_equality(token, l, r, e)

\* the match on the operator, both operands evaluated: their results l and r
binary_apply(token, l, r) ==
    IF r.res.kind # "Ok" THEN r
    ELSE operate(token, l.res.object, r.res.object, r.e)

\* both operands evaluated before the left one's result is looked at
binary_right_eager(token, right, l) ==
    IF l.res.kind # "Ok" THEN [l EXCEPT !.e = evaluate(right, l.e).e]
    ELSE binary_apply(token, l, evaluate(right, l.e))

\* let right = evaluate(right)?, the left operand's result being l
binary_right(token, right, l) ==
    IF l.res.kind # "Ok" THEN l
    ELSE binary_apply(token, l, evaluate(right, l.e))

evaluate_binary_expression(token, left, right, e) ==
    binary_right(token, right, evaluate(left, e))

\* the log, one call of evaluate more
entered(ast, e) == [e EXCEPT !.log = Append(@, ast)]

\* match ast { .. }
evaluate_node(ast, e) ==
    CASE ast.node = "IntegerLiteral" -> Value(Integer(ast.value), e)
      [] ast.node = "BooleanLiteral" -> Value(Boolean(ast.value), e)
      [] ast.node = "StringLiteral" -> Value(String(ast.value), e)
      [] ast.node = "Grouping" -> evaluate(ast.expr, e)
      [] ast.node = "UnaryExpression" -> evaluate_unary_expression(ast.token, ast.right, e)
      [] ast.node = "BinaryExpression" ->
            evaluate_binary_expression(ast.token, ast.left, ast.right, e)

evaluate(ast, e) == evaluate_node(ast, entered(ast, e))

\* ----------------------------------------------------------------- printer

DigitChar == <<"0", "1", "2", "3", "4", "5", "6", "7", "8", "9">>

\* the decimal digits of a value v <= 0, without its sign
RECURSIVE digits_of_negative(_)
digits_of_negative(v) ==
    IF v > -10 THEN <<DigitChar[1 - v]>>
    ELSE Append(digits_of_negative((v + 9) \div 10), DigitChar[1 - (v - 10 * ((v + 9) \div 10))])

\* format!("{}", value) of an i32
i32_fmt(value) ==
    IF value < 0 THEN <<"-">> \o digits_of_negative(value)
    ELSE digits_of_negative(-value)

\* format!("{}", value) of a bool
bool_fmt(value) == IF value THEN <<"t", "r", "u", "e">> ELSE <<"f", "a", "l", "s", "e">>

RECURSIVE print_expression(_)
print_expression(ast) ==
    CASE ast.node = "IntegerLiteral" ->
            <<"(", "I", "n", "t", "L", "i", "t", " ">> \o i32_fmt(ast.value) \o <<")">>
      [] ast.node = "BooleanLiteral" ->
            <<"(", "B", "o", "o", "l", "L", "i", "t", " ">> \o bool_fmt(ast.value) \o <<")">>
      [] ast.node = "StringLiteral" ->
            <<"(", "S", "t", "r", "L", "i", "t", " ">> \o ast.value \o <<")">>
      [] ast.node = "Grouping" ->
            <<"(", "G", "r", "o", "u", "p", " ">> \o print_expression(ast.expr) \o <<")">>
      [] ast.node = "UnaryExpression" ->
            <<"(">> \o ast.token.lexeme \o <<" ">> \o print_expression(ast.right) \o <<")">>
      [] ast.node = "BinaryExpression" ->
            <<"(">> \o ast.token.lexeme \o <<" ">> \o print_expression(ast.left)
                \o <<" ">> \o print_expression(ast.right) \o <<")">>

print_ast(ast) == print_expression(ast)

\* ------------------------------------------------------------------ inputs

RECURSIVE SeqsUpTo(_, _)
SeqsUpTo(S, n) ==
    IF n = 0 THEN {<<>>}
    ELSE LET shorter == SeqsUpTo(S, n - 1)
         IN  shorter \cup {Append(s, c) : s \in {t \in shorter : Len(t) = n - 1}, c \in S}

\* every text of at most MaxLen characters of the lexer's character classes
CharAlphabet == {QUOTE, "a", "1", " ", "\n", EOF, "="}

CharInputs == SeqsUpTo(CharAlphabet, MaxLen)

\* every text of at most MaxLen characters that are tokens of the grammar
ParserAlphabet == {"1", "-", "(", ")", ";", "\n"}

ParserInputs == SeqsUpTo(ParserAlphabet, MaxLen)

\* the binary operators as written, with their token type and their level
\* in the grammar of the language (1 binds loosest)
BinaryOperators ==
    {[lexeme |-> <<"=", "=">>, token_type |-> "Equals", level |-> 1],
     [lexeme |-> <<"!", "=">>, token_type |-> "BangEquals", level |-> 1],
     [lexeme |-> <<">">>, token_type |-> "Greater", level |-> 2],
     [lexeme |-> <<">", "=">>, token_type |-> "GreaterEquals", level |-> 2],
     [lexeme |-> <<"<">>, token_type |-> "Smaller", level |-> 2],
     [lexeme |-> <<"<", "=">>, token_type |-> "SmallerEquals", level |-> 2],
     [lexeme |-> <<"-">>, token_type |-> "Minus", level |-> 3],
     [lexeme |-> <<"+">>, token_type |-> "Plus", level |-> 3],
     [lexeme |-> <<"*">>, token_type |-> "Star", level |-> 4],
     [lexeme |-> <<"/">>, token_type |-> "Slash", level |-> 4]}

UnaryOperators ==
    {[lexeme |-> <<"!">>, token_type |-> "Bang"],
     [lexeme |-> <<"-">>, token_type |-> "Minus"]}

OperandDigits == <<"1", "2", "3", "4", "5", "6", "7", "8", "9">>

\* the trees the grammar gives, on line 1: the operand n, a binary node, a
\* unary node, a parenthesized expression
Operand(n) ==
    [node |-> "IntegerLiteral", value |-> n,
     token |-> [token_type |-> "IntegerLiteral", lexeme |-> <<OperandDigits[n]>>, line |-> 1]]

Binary(op, left, right) ==
    [node |-> "BinaryExpression", left |-> left, right |-> right,
     token |-> [token_type |-> op.token_type, lexeme |-> op.lexeme, line |-> 1]]

Unary(op, right) ==
    [node |-> "UnaryExpression", right |-> right,
     token |-> [token_type |-> op.token_type, lexeme |-> op.lexeme, line |-> 1]]

Group(expr) ==
    [node |-> "Grouping", expr |-> expr,
     token |-> [token_type |-> "LeftParen", lexeme |-> <<"(">>, line |-> 1]]

\* 'a H b L c' and 'a L b H c' with H of a strictly higher level than L,
\* each with the tree the precedence of the grammar gives it
PrecedenceCases ==
    LET Case(H, L) ==
            {[text |-> <<"1">> \o H.lexeme \o <<"2">> \o L.lexeme \o <<"3">>,
              tree |-> Binary(L, Binary(H, Operand(1), Operand(2)), Operand(3))],
             [text |-> <<"1">> \o L.lexeme \o <<"2">> \o H.lexeme \o <<"3">>,
              tree |-> Binary(L, Operand(1), Binary(H, Operand(2), Operand(3)))]}
    IN  UNION {Case(p[1], p[2]) :
                 p \in {q \in BinaryOperators \X BinaryOperators : q[2].level < q[1].level}}

\* '(a x b) y c' and 'a x (b y c)' for any two binary operators x, y
GroupingCases ==
    UNION {
        {[text |-> <<"(", "1">> \o x.lexeme \o <<"2", ")">> \o y.lexeme \o <<"3">>,
          tree |-> Binary(y, Group(Binary(x, Operand(1), Operand(2))), Operand(3))],
         [text |-> <<"1">> \o x.lexeme \o <<"(", "2">> \o y.lexeme \o <<"3", ")">>,
          tree |-> Binary(x, Operand(1), Group(Binary(y, Operand(2), Operand(3))))]} :
        x \in BinaryOperators, y \in BinaryOperators}

\* 'u a x b' and 'a x u b' for a unary operator u and a binary operator x
UnaryCases ==
    UNION {
        {[text |-> u.lexeme \o <<"1">> \o x.lexeme \o <<"2">>,
          tree |-> Binary(x, Unary(u, Operand(1)), Operand(2))],
         [text |-> <<"1">> \o x.lexeme \o u.lexeme \o <<"2">>,
          tree |-> Binary(x, Operand(1), Unary(u, Operand(2)))]} :
        u \in UnaryOperators, x \in BinaryOperators}

\* the chains of n operands joined by operators of the one level, each with
\* the fold of its operators from the left, in source order
RECURSIVE LevelChains(_, _)
LevelChains(level, n) ==
    IF n = 1 THEN {[text |-> <<"1">>, tree |-> Operand(1)]}
    ELSE {[text |-> c.text \o op.lexeme \o <<OperandDigits[n]>>,
           tree |-> Binary(op, c.tree, Operand(n))] :
             c \in LevelChains(level, n - 1),
             op \in {o \in BinaryOperators : o.level = level}}

AssociativityCases ==
    UNION {LevelChains(level, n) : level \in 1..4, n \in 2..MaxChain}

ExpressionInputs ==
    {c.text : c \in PrecedenceCases \cup GroupingCases \cup UnaryCases \cup AssociativityCases}

\* integer literals of up to MaxDigits digits, around the 32-bit limit
RECURSIVE Repeat(_, _)
Repeat(c, n) == IF n = 0 THEN <<>> ELSE <<c>> \o Repeat(c, n - 1)

DigitRunInputs ==
    {Repeat(c, n) : c \in {"1", "2", "9"}, n \in 1..MaxDigits}
    \cup {<<"2", "1", "4", "7", "4", "8", "3", "6", "4", "7">>,
          <<"2", "1", "4", "7", "4", "8", "3", "6", "4", "8">>}

\* literals of the three kinds
LiteralInputs ==
    {<<"t", "r", "u", "e">>, <<"f", "a", "l", "s", "e">>, <<"!", "t", "r", "u", "e">>,
     <<QUOTE, "a", QUOTE, "+", "1">>, <<"(", QUOTE, "a", QUOTE>>}

\* every text of at most MaxLen of the characters '=', '!', '<', '>'
OperatorAlphabet == {"=", "!", "<", ">"}

OperatorInputs == SeqsUpTo(OperatorAlphabet, MaxLen)

\* texts with a character that starts no token
InvalidTokenInputs ==
    {<<"#">>, <<"#", "1">>, <<"1", "#">>, <<"1", " ", "@">>, <<"1", "+", "#">>,
     <<"(", "1", "#">>, <<"#", "#">>, <<"-", "#">>, <<"1", "+", "2", ".">>}

\* operands as written: integers up to the 32-bit limits, booleans, a
\* string, and two operands whose evaluation fails
OperandTexts ==
    {<<"0">>, <<"2">>, <<"7">>, <<"-", "7">>,
     <<"2", "1", "4", "7", "4", "8", "3", "6", "4", "7">>,
     <<"(", "-", "2", "1", "4", "7", "4", "8", "3", "6", "4", "7", "-", "1", ")">>,
     <<"t", "r", "u", "e">>, <<"f", "a", "l", "s", "e">>, <<QUOTE, "a", QUOTE>>,
     <<"!", "1">>, <<"-", "t", "r", "u", "e">>}

\* 'l op r' for every binary operator and every two operands, and one or two
\* unary operators before an operand
EvaluationInputs ==
    {l \o op.lexeme \o r : l \in OperandTexts, op \in BinaryOperators, r \in OperandTexts}
    \cup {u.lexeme \o x : u \in UnaryOperators, x \in OperandTexts}
    \cup {u.lexeme \o v.lexeme \o x :
             u \in UnaryOperators, v \in UnaryOperators, x \in OperandTexts}

\* expressions over more than one line
MultiLineInputs ==
    {<<"t", "r", "u", "e", "\n", ">", "=", "f", "a", "l", "s", "e">>,
     <<"\n", "1", "\n", "+", "\n", "t", "r", "u", "e">>,
     <<"\n", "!", "\n", "1">>,
     <<"1", "\n", "=", "=", "\n", "t", "r", "u", "e">>}

\* '3 - 30 / 6', '(12 - 10) * 8', '7 * 9 - 3', '!5', 'true >= false'
ExampleInputs ==
    {<<"3", " ", "-", " ", "3", "0", " ", "/", " ", "6">>,
     <<"(", "1", "2", " ", "-", " ", "1", "0", ")", " ", "*", " ", "8">>,
     <<"7", " ", "*", " ", "9", " ", "-", " ", "3">>,
     <<"!", "5">>,
     <<"t", "r", "u", "e", " ", ">", "=", " ", "f", "a", "l", "s", "e">>}

Inputs ==
    CharInputs \cup ParserInputs \cup ExpressionInputs
        \cup DigitRunInputs \cup LiteralInputs
        \cup OperatorInputs \cup InvalidTokenInputs \cup EvaluationInputs
        \cup MultiLineInputs \cup ExampleInputs

\* ------------------------------------------------------------------- state

NoResult == [kind |-> "None"]

NoMessage == [location |-> <<>>, expected |-> "", found |-> <<>>]

NoEvaluation == [res |-> [kind |-> "None"], log |-> <<>>]

VARIABLES
    input,      \* the source text
    lexer,      \* a Lexer over input, driven by next_token calls
    emitted,    \* the next_token calls that returned, in order: the token, and
                \* next_position before the call (from), when the token was
                \* built (built_at) and after the call (to)
    aborted,    \* a next_token call on lexer panicked
    result,     \* what parse(input) returned (kind Abort: it panicked)
    tokens,     \* the token stream of parse(input) as parse left it
    message,    \* the rendering of the ParseError in result
    evaluation, \* what evaluate returned for the tree in result (kind Panic:
                \* it panicked), and the nodes it visited, in order
    printed     \* Option: the text print_ast gave for the tree in result

vars == <<input, lexer, emitted, aborted, result, tokens, message, evaluation, printed>>

Init ==
    /\ input \in Inputs
    /\ lexer = Lexer_new(input)
    /\ emitted = <<>>
    /\ aborted = FALSE
    /\ result = NoResult
    /\ tokens = Peekable_new(Lexer_new(input))
    /\ message = NoMessage
    /\ evaluation = NoEvaluation
    /\ printed = <<>>

\* one call of Lexer::next_token on lexer
NextToken ==
    /\ ~aborted
    /\ Len(emitted) < MaxCalls
    /\ LET r == next_token(lexer)
       IN  /\ lexer' = r.l
           /\ aborted' = r.panic
           /\ emitted' = IF r.panic THEN emitted
                         ELSE Append(emitted, [tok |-> r.tok[1],
                                               from |-> lexer.next_position,
                                               built_at |-> r.built_at,
                                               to |-> r.l.next_position])
    /\ UNCHANGED <<input, result, tokens, message, evaluation, printed>>

\* parse(input), on a Lexer of its own
Parse ==
    /\ result = NoResult
    /\ LET r == parse(input)
       IN  /\ result' = r.res
           /\ tokens' = r.s
    /\ UNCHANGED <<input, lexer, emitted, aborted, message, evaluation, printed>>

\* the ParseError is rendered for the user (main.rs prints it)
Display ==
    /\ result.kind \in {"MissingBrace", "MissingExpression"}
    /\ message = NoMessage
    /\ message' = ParseError_fmt(result)
    /\ UNCHANGED <<input, lexer, emitted, aborted, result, tokens, evaluation, printed>>

\* what evaluate returned, e being the evaluation as evaluate left it
evaluated(r) == [res |-> r.res, log |-> r.e.log]

\* evaluate(&*ast) on the tree parse returned (main.rs), in a build with or
\* without overflow checks
Evaluate ==
    /\ result.kind = "Ok"
    /\ evaluation = NoEvaluation
    /\ printed = <<>>
    /\ \E overflow_checks \in BOOLEAN :
          evaluation' = evaluated(evaluate(result.tree, Evaluation_new(overflow_checks)))
    /\ UNCHANGED <<input, lexer, emitted, aborted, result, tokens, message, printed>>

\* print_ast(ast) on the tree parse returned, as the parser's tests call it:
\* the tree is moved into the call, and main.rs, which evaluates the tree,
\* does not print it
PrintAst ==
    /\ result.kind = "Ok"
    /\ evaluation = NoEvaluation
    /\ printed = <<>>
    /\ printed' = <<print_ast(result.tree)>>
    /\ UNCHANGED <<input, lexer, emitted, aborted, result, tokens, message, evaluation>>

\* A Lexer driven call by call, next to parse on a Lexer of its own and the
\* rendering of its error.
Next == NextToken \/ Parse \/ Display

Spec == Init /\ [][Next]_vars

\* The pipeline on one source text: parse, then the rendering of its error,
\* or the evaluation of its tree, or the printing of its tree.  The Lexer
\* that NextToken drives is no part of it (parse makes its own).
Interpret == Parse \/ Display \/ Evaluate \/ PrintAst

Interpreter == Init /\ [][Interpret]_vars

\* ------------------------------------------------------- the lexer's claims

Min(a, b) == IF a < b THEN a ELSE b

\* 0-based index of the first character at or after i that is not whitespace
\* (Len(input) when there is none)
RECURSIVE FirstNonBlank(_)
FirstNonBlank(i) ==
    IF i >= Len(input) THEN Len(input)
    ELSE IF is_whitespace(input[i + 1]) THEN FirstNonBlank(i + 1)
    ELSE i

\* 0-based index of the first double quote after index q (Len(input) when none)
RECURSIVE ClosingQuote(_)
ClosingQuote(q) ==
    IF q + 1 >= Len(input) THEN Len(input)
    ELSE IF input[q + 2] = QUOTE THEN q + 1
    ELSE ClosingQuote(q + 1)

\* the text at 0-based indices a..b-1
Text(a, b) == SubSeq(input, a + 1, b)

RECURSIVE Newlines(_)
Newlines(s) ==
    IF s = <<>> THEN 0
    ELSE (IF Head(s) = "\n" THEN 1 ELSE 0) + Newlines(Tail(s))

\* call k of next_token started on a double quote
StringCall(k) ==
    LET q == FirstNonBlank(emitted[k].from)
    IN  q < Len(input) /\ input[q + 1] = QUOTE

Unterminated(k) ==
    StringCall(k) /\ ClosingQuote(FirstNonBlank(emitted[k].from)) = Len(input)

Terminated(k) ==
    StringCall(k) /\ ClosingQuote(FirstNonBlank(emitted[k].from)) < Len(input)

\* C3: next_token never aborts; on a double quote that is never closed it
\* returns a StringLiteral whose lexeme is all the text after the quote, and
\* every later call returns EOF.
C3_UnterminatedStringIsAToken ==
    /\ ~aborted
    /\ \A k \in 1..Len(emitted) :
          Unterminated(k) =>
             /\ emitted[k].tok.token_type = "StringLiteral"
             /\ emitted[k].tok.lexeme =
                   Text(FirstNonBlank(emitted[k].from) + 1, Len(input))
             /\ \A j \in (k + 1)..Len(emitted) : emitted[j].tok.token_type = "EOF"

\* C4: the lexeme of a closed string literal is the text strictly between its
\* quotes, and the call leaves the Lexer on the closing quote, so that the
\* next call starts with the character right after it.
C4_ClosedStringLexeme ==
    \A k \in 1..Len(emitted) :
        Terminated(k) =>
            LET q == FirstNonBlank(emitted[k].from)
                c == ClosingQuote(q)
            IN  /\ emitted[k].tok.token_type = "StringLiteral"
                /\ emitted[k].tok.lexeme = Text(q + 1, c)
                /\ emitted[k].to = c + 1

\* the text a token stands for: its lexeme, in quotes for a string literal
Spelling(tok) ==
    IF tok.token_type = "StringLiteral" THEN <<QUOTE>> \o tok.lexeme \o <<QUOTE>>
    ELSE tok.lexeme

\* C5: the calls return non-EOF tokens that spell out every character of the
\* input that is not whitespace, then EOF (kind EOF, lexeme "EOF") for ever:
\* EOF comes only when no character is left, and no token comes after it.
C5_TokensThenEOFForEver ==
    \A k \in 1..Len(emitted) :
        LET e == emitted[k]
        IN  IF e.tok.token_type = "EOF"
            THEN /\ e.tok.lexeme = <<"E", "O", "F">>
                 /\ FirstNonBlank(e.from) = Len(input)
                 /\ \A j \in (k + 1)..Len(emitted) : emitted[j].tok.token_type = "EOF"
            ELSE Spelling(e.tok) = Text(FirstNonBlank(e.from), Min(e.to, Len(input)))

\* C6: a token's line is 1 plus the number of newlines among the characters
\* the Lexer had moved over when the token was built, the Lexer's line
\* counter is 1 plus the newlines moved over so far, and the lines of the
\* tokens returned one after the other never decrease.
C6_LineCountsNewlines ==
    /\ lexer.current_line = 1 + Newlines(Text(0, Min(lexer.next_position, Len(input))))
    /\ \A k \in 1..Len(emitted) :
          /\ emitted[k].tok.line =
                1 + Newlines(Text(0, Min(emitted[k].built_at, Len(input))))
          /\ k > 1 => emitted[k - 1].tok.line <= emitted[k].tok.line

\* a token of line 2 or more has been returned after a token of line 1
C6_Witness ==
    \E k \in 2..Len(emitted) :
        /\ emitted[k].tok.token_type # "EOF"
        /\ emitted[k].tok.line > emitted[k - 1].tok.line


\* ------------------------------------------------------ the parser's claims

\* C1: when parse returns Ok, the whole token stream has been read: no
\* token waits in the lookahead and no character that is not whitespace is
\* left in the input.
C1_OkConsumesEveryToken ==
    result.kind = "Ok" =>
        /\ tokens.peeked = << <<>> >>
        /\ FirstNonBlank(tokens.l.next_position) = Len(input)

\* C2: parse returns a value, Ok or MissingExpression or MissingBrace; it
\* never aborts.
C2_ParseReturnsAValue ==
    result.kind \in {"None", "Ok", "MissingExpression", "MissingBrace"}

\* C7: a binary operator of a higher level binds tighter, on either side, than
\* one of a lower level; a unary operator binds tighter than any binary one; a
\* parenthesized expression is one operand, kept together in a Grouping node.
C7_Precedence ==
    (/\ result.kind # "None"
     /\ Len(input) >= 4
     /\ \/ input[Len(input)] \in {"2", "3"}
        \/ input[Len(input)] = ")" /\ input[Len(input) - 1] = "3") =>
        \A c \in PrecedenceCases \cup GroupingCases \cup UnaryCases :
            input = c.text => result = [kind |-> "Ok", tree |-> c.tree]

\* parse has returned the tree of '1 + 2 * 3'
C7_Witness ==
    /\ input = <<"1", "+", "2", "*", "3">>
    /\ result.kind = "Ok"
    /\ result.tree.token.token_type = "Plus"

\* C8: a chain of operators of one level parses to the fold of its operators
\* from the left, in source order, whatever its length.
C8_LeftAssociative ==
    (result.kind # "None" /\ Len(input) >= 3 /\ input[Len(input)] \in Digits \ {"1"}) =>
        \A c \in AssociativityCases :
            input = c.text => result = [kind |-> "Ok", tree |-> c.tree]

\* parse has returned the tree of the chain '1 - 2 + 3 - .. ' of MaxChain operands
C8_Witness ==
    /\ Len(input) = 2 * MaxChain - 1
    /\ input[2] = "-" /\ input[4] = "+"
    /\ result.kind = "Ok"
    /\ result.tree.left.node = "BinaryExpression"

SyntheticEOF == [token_type |-> "EOF", lexeme |-> <<"E", "O", "F">>, line |-> -1]

\* the token an error carries for the lookahead la (an Option<Token>)
Found(la) == IF la = <<>> THEN SyntheticEOF ELSE la[1]

StartsPrimary(la) ==
    /\ la # <<>>
    /\ la[1].token_type \in {"IntegerLiteral", "BooleanLiteral", "StringLiteral", "LeftParen"}

\* C9: when a primary expression is due (parse_primary_expr is entered) and
\* the lookahead is no literal and no '(', parse fails there and then with
\* MissingExpression carrying that lookahead, or the synthetic EOF token when
\* the stream is exhausted: the lookahead is left unread and nothing more is
\* parsed.  The message gives 'end of file' for EOF and 'line N' otherwise.
C9_MissingExpression ==
    /\ \A k \in 1..Len(tokens.at_primary) :
          LET la == tokens.at_primary[k]
          IN  ~StartsPrimary(la) =>
                 /\ result = [kind |-> "MissingExpression", token |-> Found(la)]
                 /\ k = Len(tokens.at_primary)
                 /\ tokens.peeked = <<la>>
    /\ (result.kind = "MissingExpression" /\ message # NoMessage) =>
          LET la == tokens.at_primary[Len(tokens.at_primary)]
          IN  /\ message.found = Found(la).lexeme
              /\ message.expected = "expression"
              /\ message.location =
                    IF la = <<>> THEN <<"end of file">> ELSE <<"line ", la[1].line>>

\* a MissingExpression for a real token of line 2 has been rendered
C9_Witness ==
    /\ result.kind = "MissingExpression"
    /\ result.token.token_type = "Semicolon"
    /\ result.token.line = 2
    /\ message.location = <<"line ", 2>>

\* C10: after '(' and an inner expression that parsed, a lookahead that is
\* not ')' makes parse fail with MissingBrace carrying that lookahead (the
\* synthetic EOF token at the end of the input); when the inner expression
\* fails, parse returns the inner error itself.
C10_MissingBrace ==
    /\ \A k \in 1..Len(tokens.at_closing) :
          LET e == tokens.at_closing[k]
          IN  /\ (e.inner.kind = "Ok"
                    /\ (e.lookahead = <<>> \/ e.lookahead[1].token_type # "RightParen")) =>
                     result = [kind |-> "MissingBrace", token |-> Found(e.lookahead)]
              /\ e.inner.kind # "Ok" => result = e.inner
    /\ (result.kind = "MissingBrace" /\ message # NoMessage) =>
          /\ message.found = result.token.lexeme
          /\ message.expected = "')'"

\* a grouping whose inner expression parsed has met ';' where ')' was due,
\* and the MissingBrace carrying it has been rendered
C10_Witness ==
    /\ Len(tokens.at_closing) >= 1
    /\ tokens.at_closing[1].inner.kind = "Ok"
    /\ result.kind = "MissingBrace"
    /\ result.token.token_type = "Semicolon"
    /\ message.expected = "')'"


\* --------------------------------------------------- the evaluator's claims

\* parse returned a tree and evaluate has been called on it
Evaluated == result.kind = "Ok" /\ evaluation # NoEvaluation

Fits(n) == <<n>>

NoValue == <<>>

\* a + b, a - b, a * b, a / b of conventional arithmetic when the operands and
\* the result are 32-bit integers (for '*' and '/': when the magnitudes of the
\* operands are, too), NoValue otherwise
Arithmetic(op, a, b) ==
    CASE op = <<"+">> ->
            IF (b >= 0 /\ a <= I32_MAX - b) \/ (b < 0 /\ a >= I32_MIN - b)
            THEN Fits(a + b) ELSE NoValue
      [] op = <<"-">> ->
            IF (b >= 0 /\ a >= I32_MIN + b) \/ (b < 0 /\ a <= I32_MAX + b)
            THEN Fits(a - b) ELSE NoValue
      [] op = <<"*">> ->
            IF a = 0 \/ b = 0 THEN Fits(0)
            ELSE IF a = I32_MIN \/ b = I32_MIN THEN NoValue
            ELSE IF (IF a < 0 THEN -a ELSE a) <= I32_MAX \div (IF b < 0 THEN -b ELSE b)
            THEN Fits(a * b) ELSE NoValue
      [] op = <<"/">> ->
            IF b = 0 \/ a = I32_MIN \/ b = I32_MIN THEN NoValue
            ELSE IF (a < 0) = (b < 0)
            THEN Fits((IF a < 0 THEN -a ELSE a) \div (IF b < 0 THEN -b ELSE b))
            ELSE Fits(-((IF a < 0 THEN -a ELSE a) \div (IF b < 0 THEN -b ELSE b)))

ArithmeticOperators == {<<"+">>, <<"-">>, <<"*">>, <<"/">>}

ComparisonOperators == {<<">">>, <<">", "=">>, <<"<">>, <<"<", "=">>}

EqualityOperators == {<<"=", "=">>, <<"!", "=">>}

\* the integer an expression stands for in conventional arithmetic: integer
\* literals, parentheses, the sign '-' and + - * /; NoValue for anything else
RECURSIVE Denotes(_)
Denotes(t) ==
    CASE t.node = "IntegerLiteral" -> Fits(t.value)
      [] t.node = "Grouping" -> Denotes(t.expr)
      [] t.node = "UnaryExpression" /\ t.token.lexeme = <<"-">> ->
            IF Denotes(t.right) = NoValue THEN NoValue
            ELSE Arithmetic(<<"-">>, 0, Denotes(t.right)[1])
      [] t.node = "BinaryExpression" /\ t.token.lexeme \in ArithmeticOperators ->
            IF Denotes(t.left) = NoValue \/ Denotes(t.right) = NoValue THEN NoValue
            ELSE Arithmetic(t.token.lexeme, Denotes(t.left)[1], Denotes(t.right)[1])
      [] OTHER -> NoValue

\* l op r for a comparison operator
Compares(op, l, r) ==
    CASE op = <<">">> -> l > r
      [] op = <<">", "=">> -> l >= r
      [] op = <<"<">> -> l < r
      [] op = <<"<", "=">> -> l <= r

Returned(kind, value) == [kind |-> "Ok", object |-> [kind |-> kind, value |-> value]]

\* C11: an expression of integers, parentheses and + - * / evaluates to its
\* value in conventional arithmetic, '/' rounding toward zero, when no divisor
\* is zero and every result is a 32-bit integer; > >= < <= on two such
\* operands give the Boolean of the comparison; a Grouping evaluates to what
\* its inner expression evaluates to.
C11_IntegerArithmetic ==
    Evaluated =>
        /\ Denotes(result.tree) # NoValue =>
              evaluation.res = Returned("Integer", Denotes(result.tree)[1])
        /\ (/\ result.tree.node = "BinaryExpression"
            /\ result.tree.token.lexeme \in ComparisonOperators
            /\ Denotes(result.tree.left) # NoValue
            /\ Denotes(result.tree.right) # NoValue) =>
              evaluation.res =
                 Returned("Boolean", Compares(result.tree.token.lexeme,
                                              Denotes(result.tree.left)[1],
                                              Denotes(result.tree.right)[1]))
        /\ result.tree.node = "Grouping" =>
              \E overflow_checks \in BOOLEAN :
                 evaluation.res =
                    evaluate(result.tree.expr, Evaluation_new(overflow_checks)).res

\* '-7 / 2' has evaluated to -3
C11_Witness ==
    /\ input = <<"-", "7", "/", "2">>
    /\ evaluation.res = Returned("Integer", -3)

\* the value of an operand that is a literal or an expression of integers
Known(t) ==
    IF Denotes(t) # NoValue THEN <<[kind |-> "Integer", value |-> Denotes(t)[1]]>>
    ELSE IF t.node = "BooleanLiteral" THEN <<[kind |-> "Boolean", value |-> t.value]>>
    ELSE IF t.node = "StringLiteral" THEN <<[kind |-> "String", value |-> t.value]>>
    ELSE <<>>

RECURSIVE Joined(_)
Joined(lexeme) == IF lexeme = <<>> THEN "" ELSE Head(lexeme) \o Joined(Tail(lexeme))

\* the error of a binary operator: its message, with the operator's lexeme
\* between the quotes, at the line of its token
InvalidOperands(token) ==
    [kind |-> "Err",
     error |-> [location |-> <<"line ", token.line>>,
                msg |-> "Invalid operands for '" \o Joined(token.lexeme) \o "'"]]

\* the root of the tree is a binary operator of ops on two known operands
BinaryOnKnown(ops) ==
    /\ Evaluated
    /\ result.tree.node = "BinaryExpression"
    /\ result.tree.token.lexeme \in ops
    /\ Known(result.tree.left) # <<>>
    /\ Known(result.tree.right) # <<>>

\* C12: '==' and '!=' give Boolean(l = r), Boolean(l /= r) for two Integers
\* and for two Booleans; for any other two operands, two Strings too, they
\* fail with the error naming the operator.
C12_EqualityOfOneKind ==
    BinaryOnKnown(EqualityOperators) =>
        LET l == Known(result.tree.left)[1]
            r == Known(result.tree.right)[1]
        IN  IF l.kind = r.kind /\ l.kind \in {"Integer", "Boolean"}
            THEN evaluation.res =
                    Returned("Boolean",
                             IF result.tree.token.lexeme = <<"=", "=">>
                             THEN l.value = r.value ELSE l.value # r.value)
            ELSE evaluation.res = InvalidOperands(result.tree.token)

\* '"a" == "a"' has been refused with the error of '=='
C12_Witness ==
    /\ input = <<QUOTE, "a", QUOTE, "=", "=", QUOTE, "a", QUOTE>>
    /\ evaluation.res.kind = "Err"

\* C13: + - * / > >= < <= on two operands that evaluate, one of them no
\* Integer, fail with "Invalid operands for '<op>'", <op> the operator's own
\* lexeme, at the line of the operator's token.
C13_InvalidOperands ==
    (/\ BinaryOnKnown(ArithmeticOperators \cup ComparisonOperators)
     /\ \/ Known(result.tree.left)[1].kind # "Integer"
        \/ Known(result.tree.right)[1].kind # "Integer") =>
        evaluation.res = InvalidOperands(result.tree.token)

\* 'true >= false' on line 2 has failed with the error of '>=' at line 2
C13_Witness ==
    /\ Evaluated
    /\ result.tree.node = "BinaryExpression"
    /\ result.tree.token.lexeme = <<">", "=">>
    /\ result.tree.token.line = 2
    /\ result.tree.left.node = "BooleanLiteral"
    /\ evaluation.res.kind = "Err"
    /\ evaluation.res.error.location = <<"line ", 2>>

\* the error of a unary operator
InvalidOperand(token) ==
    [kind |-> "Err",
     error |-> [location |-> <<"line ", token.line>>,
                msg |-> IF token.lexeme = <<"!">>
                        THEN "Invalid operand for '!', expected boolean expression"
                        ELSE "Invalid operand for '-', expected integer expression"]]

\* what a unary operator, written op, gives for an operand of value v
Applied(token, v) ==
    IF token.lexeme = <<"!">>
    THEN (IF v.kind = "Boolean" THEN Returned("Boolean", ~v.value)
          ELSE InvalidOperand(token))
    ELSE (IF v.kind = "Integer" THEN Returned("Integer", 0 - v.value)
          ELSE InvalidOperand(token))

\* C14: '!' gives Boolean(not v) for a Boolean operand and the error of '!'
\* for an Integer or a String; '-' gives Integer(-v) for an Integer operand
\* and the error of '-' for a Boolean or a String; so '!!b' is b, '--n' is n.
C14_UnaryOperators ==
    (Evaluated /\ result.tree.node = "UnaryExpression") =>
        LET t == result.tree
        IN  /\ Known(t.right) # <<>> =>
                 IF t.token.lexeme = <<"-">> /\ Known(t.right)[1].kind = "Integer"
                 THEN /\ evaluation.res.kind = "Ok"
                      /\ evaluation.res.object.kind = "Integer"
                      /\ Known(t.right)[1].value # I32_MIN
                      /\ evaluation.res.object.value = 0 - Known(t.right)[1].value
                 ELSE evaluation.res = Applied(t.token, Known(t.right)[1])
            /\ (/\ t.right.node = "UnaryExpression"
                /\ t.right.token.lexeme = t.token.lexeme
                /\ Known(t.right.right) # <<>>
                /\ Known(t.right.right)[1].kind =
                      (IF t.token.lexeme = <<"!">> THEN "Boolean" ELSE "Integer")) =>
                 evaluation.res = [kind |-> "Ok", object |-> Known(t.right.right)[1]]

\* C15: evaluate returns a value, Ok(Object) or an EvalError, for every tree:
\* it never aborts.
C15_EvaluateReturnsAValue ==
    evaluation.res.kind \in {"None", "Ok", "Err"}

\* ----------------------------------------------------- the printer's claim

\* parse returned r for the printed text: a tree that prints to the same text
Reprints(r) == r.kind = "Ok" /\ print_ast(r.tree) = printed[1]

\* C16: the text print_ast gives for a parsed tree parses, and the tree it
\* parses to prints to the same text.
C16_PrintIsStable ==
    printed # <<>> => Reprints(parse(printed[1]).res)

\* ------------------------------------------------ claims on invalid tokens

\* the characters a token starts with
StartsToken(c) ==
    \/ c \in Digits \cup Letters \cup {"_", QUOTE}
    \/ c \in {"-", "+", "*", "/", "(", ")", "{", "}", ";", "=", "!", "<", ">"}

\* the input has a character outside every string literal that starts no token
HasInvalidToken ==
    /\ \E i \in 1..Len(input) :
          ~StartsToken(input[i]) /\ ~is_whitespace(input[i]) /\ input[i] # EOF
    /\ \A i \in 1..Len(input) : input[i] \notin {QUOTE, EOF}

\* C17: a character that starts no token is returned as one InvalidToken whose
\* lexeme is that character, the next call going on with the character after
\* it; and parse returns a ParseError for every source with such a token.
C17_InvalidTokenIsRejected ==
    /\ \A k \in 1..Len(emitted) :
          LET i == FirstNonBlank(emitted[k].from)
          IN  (/\ i < Len(input)
               /\ ~StartsToken(input[i + 1])
               /\ input[i + 1] # EOF) =>
                 /\ emitted[k].tok.token_type = "InvalidToken"
                 /\ emitted[k].tok.lexeme = <<input[i + 1]>>
                 /\ emitted[k].to = i + 1
    /\ (HasInvalidToken /\ result.kind # "None") =>
          result.kind \in {"MissingExpression", "MissingBrace"}

\* ------------------------------------------------- the order of evaluation

\* the evaluation of a binary node whose operands evaluate to l and to r, as
\* far as the order of its operands decides it
InOrder(t, l, r) ==
    IF l.res.kind # "Ok"
    THEN /\ evaluation.res = l.res
         /\ evaluation.log = <<t>> \o l.e.log
    ELSE /\ evaluation.log = <<t>> \o l.e.log \o r.e.log
         /\ r.res.kind # "Ok" => evaluation.res = r.res

\* C18: a binary node evaluates its left operand, then its right one, and
\* stops at the first failure: a failure of the left operand is the result and
\* the right operand is not evaluated; a failure of the right operand after
\* the left one succeeded is the result; the operator looks at its operands
\* only when both have succeeded.
C18_LeftThenRight ==
    (Evaluated /\ result.tree.node = "BinaryExpression") =>
        \E overflow_checks \in BOOLEAN :
            InOrder(result.tree,
                    evaluate(result.tree.left, Evaluation_new(overflow_checks)),
                    evaluate(result.tree.right, Evaluation_new(overflow_checks)))

\* '!1 op -true' has failed with the error of '!' after three calls of
\* evaluate: on the root, on '!1' and on its operand
C18_Witness ==
    /\ Evaluated
    /\ result.tree.node = "BinaryExpression"
    /\ result.tree.left.node = "UnaryExpression"
    /\ result.tree.right.node = "UnaryExpression"
    /\ result.tree.right.right.node = "BooleanLiteral"
    /\ evaluation.res.kind = "Err"
    /\ evaluation.res.error.msg = "Invalid operand for '!', expected boolean expression"
    /\ Len(evaluation.log) = 3

\* --------------------------------------------- the two-character operators

\* the token types of '=', '!', '<', '>': alone, and followed by '='
Prefixed ==
    [c \in {"=", "!", "<", ">"} |->
        CASE c = "=" -> [single |-> "Assignment", double |-> "Equals"]
          [] c = "!" -> [single |-> "Bang", double |-> "BangEquals"]
          [] c = "<" -> [single |-> "Smaller", double |-> "SmallerEquals"]
          [] c = ">" -> [single |-> "Greater", double |-> "GreaterEquals"]]

\* C19: '=', '!', '<', '>' give the token of two characters exactly when the
\* very next character is '=', both characters being consumed, and the token
\* of one character otherwise, one character being consumed.
C19_TwoCharacterOperators ==
    \A k \in 1..Len(emitted) :
        LET i == FirstNonBlank(emitted[k].from)
        IN  (i < Len(input) /\ input[i + 1] \in DOMAIN Prefixed) =>
               IF i + 1 < Len(input) /\ input[i + 2] = "="
               THEN /\ emitted[k].tok.token_type = Prefixed[input[i + 1]].double
                    /\ emitted[k].tok.lexeme = <<input[i + 1], "=">>
                    /\ emitted[k].to = i + 2
               ELSE /\ emitted[k].tok.token_type = Prefixed[input[i + 1]].single
                    /\ emitted[k].tok.lexeme = <<input[i + 1]>>
                    /\ emitted[k].to = i + 1

\* '===' has been lexed as Equals, Assignment
C19_Witness ==
    /\ input = <<"=", "=", "=">>
    /\ Len(emitted) >= 2
    /\ emitted[1].tok.token_type = "Equals"
    /\ emitted[2].tok.token_type = "Assignment"

\* ---------------------------------------------------- well-formed trees

\* every unary node of the tree carries '!' or '-', every binary node one of
\* the ten binary operators
RECURSIVE WellFormed(_)
WellFormed(t) ==
    CASE t.node = "UnaryExpression" ->
            /\ t.token.token_type \in {"Bang", "Minus"}
            /\ WellFormed(t.right)
      [] t.node = "BinaryExpression" ->
            /\ t.token.token_type \in
                  {"Equals", "BangEquals", "Greater", "GreaterEquals", "Smaller",
                   "SmallerEquals", "Minus", "Plus", "Star", "Slash"}
            /\ WellFormed(t.left)
            /\ WellFormed(t.right)
      [] t.node = "Grouping" -> WellFormed(t.expr)
      [] OTHER -> t.node \in {"IntegerLiteral", "BooleanLiteral", "StringLiteral"}

\* C20: a tree parse returns is well-formed, and its evaluation never ends
\* in the error "Unreachable".
C20_ParsedTreesAreWellFormed ==
    /\ result.kind = "Ok" => WellFormed(result.tree)
    /\ (Evaluated /\ evaluation.res.kind = "Err") =>
          evaluation.res.error.msg # "Unreachable"

\* a tree with a binary node over a unary node has been evaluated to an error
C20_Witness ==
    /\ Evaluated
    /\ result.tree.node = "BinaryExpression"
    /\ result.tree.left.node = "UnaryExpression"
    /\ evaluation.res.kind = "Err"

\* ------------------------------------------------------ the lexer's progress

\* where the cursor of lexer was after the calls that returned
CursorAfterCalls == IF emitted = <<>> THEN 0 ELSE emitted[Len(emitted)].to

\* the number of tokens a tree is made of, the ')' of a group counted in
RECURSIVE Nodes(_)
Nodes(t) ==
    CASE t.node = "Grouping" -> 2 + Nodes(t.expr)
      [] t.node = "UnaryExpression" -> 1 + Nodes(t.right)
      [] t.node = "BinaryExpression" -> 1 + Nodes(t.left) + Nodes(t.right)
      [] OTHER -> 1

\* C21: every next_token call moves the cursor forward by one position at
\* least, the cursor never goes back, within a call and from one call to the
\* next; so the calls on an input of n characters return n tokens other than
\* EOF at most, and parse comes to an end on every input: it returns with its
\* own cursor two positions past the end of the input at most, so after
\* n + 2 calls at most, and with a tree of n tokens at most.
C21_LexerMakesProgress ==
    /\ \A k \in 1..Len(emitted) :
          /\ emitted[k].from < emitted[k].built_at
          /\ emitted[k].built_at <= emitted[k].to
          /\ emitted[k].from = (IF k = 1 THEN 0 ELSE emitted[k - 1].to)
    /\ IF aborted THEN lexer.next_position > CursorAfterCalls
       ELSE lexer.next_position = CursorAfterCalls
    /\ Cardinality({k \in 1..Len(emitted) : emitted[k].tok.token_type # "EOF"})
          <= Len(input)
    /\ result.kind # "None" => tokens.l.next_position \in 1..(Len(input) + 2)
    /\ result.kind = "Ok" => Nodes(result.tree) <= Len(input)

\* the calls have returned as many tokens as the input has characters, two or
\* more, then EOF, and parse has returned
C21_Witness ==
    /\ Len(input) >= 2
    /\ Len(emitted) = Len(input) + 1
    /\ \A k \in 1..Len(input) : emitted[k].tok.token_type # "EOF"
    /\ emitted[Len(emitted)].tok.token_type = "EOF"
    /\ result.kind # "None"


=============================================================================
